---- MODULE Spec2Model ----
(***************************************************************************)
(* vbitrate-viewer (src/src/main.rs): main runs get_video_info over the    *)
(* packets of a media container, optionally divides every sample by the    *)
(* pixel count (--bpp), and hands the series to draw_graph, which draws a  *)
(* line chart into a bitmap file.                                          *)
(*                                                                         *)
(* The ffmpeg demuxer/decoder and the plotters backend are libraries; the  *)
(* model keeps what the program observes of them: the items the packet     *)
(* iterator yields, the Result<bool, Error> of decoder.decode together     *)
(* with the frame it leaves in decoded_frame, the Result of each drawing   *)
(* call, and the file the bitmap backend saves when it is dropped.         *)
(*                                                                         *)
(* f64 values are modelled exactly as extended rationals: a finite value   *)
(* n/d, or NaN, +Infinity, -Infinity (rounding is not modelled).           *)
(***************************************************************************)
EXTENDS Integers, Sequences, FiniteSets

\* Bounds of the model.
MaxPackets == 3

\* Stream indices of the container, packet sizes in bytes, and the frame
\* dimensions a decoder may report.
Streams == {0, 1}
Sizes == {1, 2}
Dims == {<<1, 1>>, <<2, 1>>}
\* pkt_size of a frame that holds no picture (a value the library leaves there).
BlankSizes == {0, 1}

VARIABLES
    pc,               \* position of main
    container,        \* the items ictx.packets() yields, in order
    pos,              \* number of items taken from the iterator
    input_stream_idx, \* index of the selected video stream
    empty_frame,      \* the frame with no picture, as the library makes it
    pending,          \* packet sizes the decoder accepted and has not output
    decoded_frame,    \* the frame decoder.decode writes into
    v_info,           \* the VideoInfo being accumulated
    log,              \* history: one entry per packet submitted to the decoder
    use_bpp,          \* cli.bpp
    data,             \* the series given to draw_graph
    y_label,
    chart,            \* what draw_graph computed and met
    file,             \* the file at output_path
    result            \* how main ended

vars == <<pc, container, pos, input_stream_idx, empty_frame, pending,
          decoded_frame, v_info, log, use_bpp, data, y_label, chart, file,
          result>>

----------------------------------------------------------------------------
\* f64

Fin(n, d) == [k |-> "fin", n |-> n, d |-> d]
NaN == [k |-> "nan", n |-> 0, d |-> 1]
PInf == [k |-> "pinf", n |-> 0, d |-> 1]
NInf == [k |-> "ninf", n |-> 0, d |-> 1]

\* `x as f64` for an integer x
AsF64(x) == Fin(x, 1)

IsNaN(a) == a.k = "nan"
IsFinite(a) == a.k = "fin"

\* a < b for two values that are not NaN
FLt(a, b) ==
    IF a.k = "pinf" \/ b.k = "ninf" THEN FALSE
    ELSE IF a.k = "ninf" \/ b.k = "pinf" THEN TRUE
    ELSE a.n * b.d < b.n * a.d

\* a == b in the sense of f64 (NaN equals nothing)
FEq(a, b) ==
    IF IsNaN(a) \/ IsNaN(b) THEN FALSE
    ELSE IF a.k = "fin" /\ b.k = "fin" THEN a.n * b.d = b.n * a.d
    ELSE a.k = b.k

\* a + b
FAdd(a, b) ==
    IF IsNaN(a) \/ IsNaN(b) THEN NaN
    ELSE IF a.k = "fin" /\ b.k = "fin"
         THEN (IF a.d = b.d THEN Fin(a.n + b.n, a.d)
               ELSE Fin(a.n * b.d + b.n * a.d, a.d * b.d))
    ELSE IF a.k = "fin" THEN b
    ELSE IF b.k = "fin" THEN a
    ELSE IF a.k = b.k THEN a
    ELSE NaN

\* a / (m as f64) for an unsigned integer m
FDivBy(a, m) ==
    IF IsNaN(a) THEN NaN
    ELSE IF m = 0
         THEN (IF a.k = "fin" /\ a.n = 0 THEN NaN
               ELSE IF FLt(a, AsF64(0)) THEN NInf
               ELSE PInf)
    ELSE IF a.k = "fin" THEN Fin(a.n, a.d * m)
    ELSE a

\* a * 1.2
FMul12(a) == IF a.k = "fin" THEN Fin(a.n * 12, a.d * 10) ELSE a

\* f64::max: v.max(m) ignores a NaN operand
FMax(v, m) ==
    IF IsNaN(v) THEN m
    ELSE IF IsNaN(m) THEN v
    ELSE IF FLt(v, m) THEN m
    ELSE v

----------------------------------------------------------------------------
\* The container and the decoder

Packet(s, n) == [kind |-> "packet", stream |-> s, size |-> n]
ReadErr == [kind |-> "read_err", stream |-> 0, size |-> 0]
Items == {Packet(s, n) : s \in Streams, n \in Sizes} \cup {ReadErr}
Containers == UNION {[1..n -> Items] : n \in 0..MaxPackets}

Frame(w, h, n) == [w |-> w, h |-> h, size |-> n]
\* frame::Video::empty()
EmptyFrames == {Frame(0, 0, n) : n \in BlankSizes}

Without(s, i) == [j \in 1..(Len(s) - 1) |-> IF j < i THEN s[j] ELSE s[j + 1]]

\* decoder.decode(&packet, &mut decoded_frame): every outcome the decoder can
\* produce for a packet of `size` bytes, as [res, frame, pending].
\*   Err(e):    the packet is rejected;
\*   Ok(false): the packet is accepted and no frame is completed yet;
\*   Ok(true):  the packet is accepted and one buffered frame is completed:
\*              the frame carries its own dimensions and the size of the
\*              packet it was coded in.
\* With no frame completed, decoded_frame is reset to the frame with no
\* picture, `blank`.
Decode(pend, blank, size) ==
    LET noframe == {blank}
        all == Append(pend, size)
    IN  {[res |-> [ok |-> FALSE, got |-> FALSE], frame |-> f, pending |-> pend]
            : f \in noframe}
        \cup
        {[res |-> [ok |-> TRUE, got |-> FALSE], frame |-> f, pending |-> all]
            : f \in noframe}
        \cup
        {[res |-> [ok |-> TRUE, got |-> TRUE],
          frame |-> Frame(d[1], d[2], all[i]),
          pending |-> Without(all, i)] : d \in Dims, i \in 1..Len(all)}

----------------------------------------------------------------------------
\* get_video_info

NoResult == [kind |-> "running", error |-> "none"]
Ok == [kind |-> "ok", error |-> "none"]
Err(e) == [kind |-> "err", error |-> e]
Panic == [kind |-> "panic", error |-> "attempt to subtract with overflow"]

NoChart ==
    [called |-> FALSE, writable |-> FALSE, lib_fail |-> "none", built |-> FALSE,
     max |-> NaN, avg |-> NaN, x_end |-> 0, y_end |-> NaN]

Init ==
    /\ pc = "open"
    /\ container \in Containers
    /\ pos = 0
    /\ input_stream_idx = 0
    /\ pending = <<>>
    /\ empty_frame \in EmptyFrames
    /\ decoded_frame = empty_frame
    /\ v_info = [w |-> 0, h |-> 0, bits |-> <<>>]
    /\ log = <<>>
    /\ use_bpp = FALSE
    /\ data = <<>>
    /\ y_label = ""
    /\ chart = NoChart
    /\ file = "untouched"
    /\ result = NoResult

\* main's `?` on an Err of get_video_info
Fail(e) ==
    /\ pc' = "done"
    /\ result' = Err(e)
    /\ UNCHANGED <<container, pos, input_stream_idx, empty_frame, pending,
                   decoded_frame, v_info, log, use_bpp, data, y_label, chart,
                   file>>

Proceed(next) ==
    /\ pc' = next
    /\ UNCHANGED <<container, pos, input_stream_idx, empty_frame, pending,
                   decoded_frame, v_info, log, use_bpp, data, y_label, chart,
                   file, result>>

\* ffmpeg::init()? and format::input(&input_path)?
OpenInput ==
    /\ pc = "open"
    /\ \/ Proceed("find_stream")
       \/ Fail("open")

\* ictx.streams().best(Type::Video).ok_or_else(..)? and input.index()
FindStream ==
    /\ pc = "find_stream"
    /\ \/ /\ pc' = "decoder"
          /\ input_stream_idx' \in Streams
          /\ UNCHANGED <<container, pos, empty_frame, pending, decoded_frame,
                         v_info, log, use_bpp, data, y_label, chart, file,
                         result>>
       \/ Fail("Failed to find video stream")

\* input.codec().decoder().video()? and decoder.set_parameters(..)?
InitDecoder ==
    /\ pc = "decoder"
    /\ \/ Proceed("loop")
       \/ Fail("decoder")

\* Variant: the stream index is not compared.
IsSelectedAnyStream(item, idx) == TRUE

\* stream.index() == input_stream_idx
IsSelected(item, idx) == item.stream = idx

\* res.is_ok()
IsOkRes(res) == res.ok

\* Variant: the sample is pushed whatever decode returned.
RecordFrameUnchecked(vi, res, frame) ==
    LET vi1 == IF vi.w = 0 /\ vi.h = 0
               THEN [vi EXCEPT !.w = frame.w, !.h = frame.h]
               ELSE vi
    IN  [vi1 EXCEPT !.bits = Append(@, AsF64(frame.size))]

\* The body of the loop after decoder.decode returned `res` and left `frame`
\* in decoded_frame: the new v_info.
RecordFrame(vi, res, frame) ==
    LET vi1 == IF vi.w = 0 /\ vi.h = 0
               THEN [vi EXCEPT !.w = frame.w, !.h = frame.h]
               ELSE vi
    IN  IF IsOkRes(res)
        THEN [vi1 EXCEPT !.bits = Append(@, AsF64(frame.size))]
        ELSE vi1

\* `while let Some(Ok((stream, packet))) = packets.next()` does not match:
\* the iterator returned None, or Some(Err(_)).
LoopEnds(items, n) ==
    IF n = Len(items) THEN TRUE ELSE items[n + 1].kind = "read_err"

\* A packet of another stream: the body is skipped.
LoopOther ==
    /\ pc = "loop"
    /\ ~LoopEnds(container, pos)
    /\ ~IsSelected(container[pos + 1], input_stream_idx)
    /\ pos' = pos + 1
    /\ UNCHANGED <<pc, container, input_stream_idx, empty_frame, pending,
                   decoded_frame, v_info, log, use_bpp, data, y_label, chart,
                   file, result>>

\* A packet of the selected stream: decode it and record.
LoopDecode ==
    /\ pc = "loop"
    /\ ~LoopEnds(container, pos)
    /\ IsSelected(container[pos + 1], input_stream_idx)
    /\ \E out \in Decode(pending, empty_frame, container[pos + 1].size) :
          /\ pending' = out.pending
          /\ decoded_frame' = out.frame
          /\ v_info' = RecordFrame(v_info, out.res, out.frame)
          /\ log' = Append(log, [item |-> pos + 1, res |-> out.res,
                                 frame |-> out.frame])
    /\ pos' = pos + 1
    /\ UNCHANGED <<pc, container, input_stream_idx, empty_frame, use_bpp,
                   data, y_label, chart, file, result>>

\* The loop is left and get_video_info returns Ok(v_info).
LoopExit ==
    /\ pc = "loop"
    /\ LoopEnds(container, pos)
    /\ Proceed("transform")

----------------------------------------------------------------------------
\* main, lines 152-162

\* v_info.bits.iter().map(|x| *x as f64 / pix_num as f64).collect()
Normalize(bits, pix_num) == [i \in 1..Len(bits) |-> FDivBy(bits[i], pix_num)]

Transform ==
    /\ pc = "transform"
    /\ \E bpp \in BOOLEAN :
          /\ use_bpp' = bpp
          /\ IF bpp
             THEN /\ data' = Normalize(v_info.bits, v_info.w * v_info.h)
                  /\ y_label' = "bit per pixel"
             ELSE /\ data' = v_info.bits
                  /\ y_label' = "bit"
    /\ pc' = "draw"
    /\ UNCHANGED <<container, pos, input_stream_idx, empty_frame, pending,
                   decoded_frame, v_info, log, chart, file, result>>

----------------------------------------------------------------------------
\* draw_graph

RECURSIVE FoldMax(_, _, _)
FoldMax(datas, i, m) ==
    IF i > Len(datas) THEN m ELSE FoldMax(datas, i + 1, FMax(datas[i], m))

\* datas.iter().fold(f64::NAN, |m, v| v.max(m))
MaxOf(datas) == FoldMax(datas, 1, NaN)

RECURSIVE FoldSum(_, _, _)
FoldSum(datas, i, s) ==
    IF i > Len(datas) THEN s ELSE FoldSum(datas, i + 1, FAdd(s, datas[i]))

\* datas.iter().sum::<f64>() / datas.len() as f64
AvgOf(datas) == FDivBy(FoldSum(datas, 1, AsF64(0)), Len(datas))

\* Variant: the x range ends at datas.len().
XRangeEndLen(len, overflow_checks) == [panic |-> FALSE, end |-> len]

\* datas.len() - 1 on usize: with overflow checks (a debug build) the
\* subtraction panics on 0, without them (a release build) it wraps.
XRangeEnd(len, overflow_checks) ==
    IF len >= 1 THEN [panic |-> FALSE, end |-> len - 1]
    ELSE IF overflow_checks THEN [panic |-> TRUE, end |-> 0]
    ELSE [panic |-> FALSE, end |-> "usize::MAX"]

\* Variant: a backend that is dropped without saving.
PresentNever(f, dropped, writable) == f

\* The bitmap backend saves the canvas to output_path when it is dropped
\* (draw_graph never calls present itself); a failed save is ignored.
Present(f, dropped, writable) ==
    IF dropped /\ writable THEN "written" ELSE f

\* lib_fail: whether a drawing call of the library returns Err ("draw": one
\*   of root.fill, build_cartesian_2d, the mesh or a series; the model places
\*   it after the x range is computed).
\* unwind: whether a panic unwinds the stack (and so drops the backend).
DrawGraph ==
    /\ pc = "draw"
    /\ \E writable \in BOOLEAN, lib_fail \in {"none", "draw"},
          overflow_checks \in BOOLEAN, unwind \in BOOLEAN :
          LET xr == XRangeEnd(Len(data), overflow_checks)
              built == ~xr.panic
              r == IF xr.panic THEN Panic
                   ELSE IF lib_fail = "draw" THEN Err("render")
                   ELSE Ok
          IN  /\ chart' = [called |-> TRUE, writable |-> writable,
                           lib_fail |-> lib_fail, built |-> built,
                           max |-> MaxOf(data),
                           avg |-> AvgOf(data),
                           x_end |-> IF built THEN xr.end ELSE 0,
                           y_end |-> IF built THEN FMul12(MaxOf(data)) ELSE NaN]
              /\ file' = Present(file, r.kind # "panic" \/ unwind, writable)
              /\ result' = r
    /\ pc' = "done"
    /\ UNCHANGED <<container, pos, input_stream_idx, empty_frame, pending,
                   decoded_frame, v_info, log, use_bpp, data, y_label>>

----------------------------------------------------------------------------
Next ==
    \/ OpenInput
    \/ FindStream
    \/ InitDecoder
    \/ LoopOther
    \/ LoopDecode
    \/ LoopExit
    \/ Transform
    \/ DrawGraph

Spec == Init /\ [][Next]_vars

----------------------------------------------------------------------------
\* Vocabulary of the properties

\* get_video_info has returned Ok(v_info)
ExtractorReturned ==
    pc \in {"transform", "draw"} \/ (pc = "done" /\ chart.called)

\* positions of the selected stream's packets in the container
SelectedAt ==
    {i \in 1..Len(container) :
        container[i].kind = "packet" /\ container[i].stream = input_stream_idx}

SelectedPackets ==
    SelectSeq(container,
              LAMBDA it : it.kind = "packet" /\ it.stream = input_stream_idx)

\* log entries of the packets decode accepted, and of those that completed a
\* frame
Accepted == SelectSeq(log, LAMBDA e : e.res.ok)
Framed == SelectSeq(log, LAMBDA e : e.res.ok /\ e.res.got)

\* every selected packet of the container was decoded to a completed frame
AllFramed ==
    /\ \A i \in SelectedAt : \E k \in 1..Len(log) : log[k].item = i
    /\ \A k \in 1..Len(log) : log[k].res.ok /\ log[k].res.got

\* the exact sum of a series of finite values, as numerator and denominator
RECURSIVE RatSum(_, _)
RatSum(s, n) ==
    IF n = 0 THEN <<0, 1>>
    ELSE LET r == RatSum(s, n - 1)
         IN  <<r[1] * s[n].d + s[n].n * r[2], r[2] * s[n].d>>

AllFinite(s) == \A i \in 1..Len(s) : IsFinite(s[i])
SomeNaN(s) == \E i \in 1..Len(s) : IsNaN(s[i])
Numbers(s) == {s[i] : i \in {j \in 1..Len(s) : ~IsNaN(s[j])}}

----------------------------------------------------------------------------
\* C1: a selected-stream packet whose decode fails adds no sample and does
\* not end the loop: the samples are exactly the packets decode accepted, in
\* order (so the ones after a failure are recorded), the loop is left only
\* when the packet iterator stops yielding packets, and get_video_info then
\* returns Ok with the accumulated series.
DecodeFailureSkipped ==
    /\ v_info.bits = [i \in 1..Len(Accepted) |-> AsF64(Accepted[i].frame.size)]
    /\ log # <<>> => pc = "loop" \/ ExtractorReturned
    /\ (log # <<>> /\ pc # "loop") => LoopEnds(container, pos)
    /\ (log # <<>> /\ pc = "done") => result.error \notin {"open", "decoder",
                                          "Failed to find video stream"}

DecodeFailureThenSample ==
    /\ ExtractorReturned
    /\ Len(log) = 3
    /\ ~log[2].res.ok
    /\ log[1].res.got /\ log[3].res.got
    /\ Len(v_info.bits) = 2

\* C2: when every packet of the selected stream decodes to a completed
\* frame, the returned series holds one sample per selected packet, in
\* packet order, each the byte size of that packet; packets of other streams
\* add nothing.
OneSamplePerPacket ==
    (ExtractorReturned /\ AllFramed) =>
        v_info.bits = [i \in 1..Len(SelectedPackets) |->
                          AsF64(SelectedPackets[i].size)]

InterleavedStreamAllFramed ==
    /\ ExtractorReturned /\ AllFramed
    /\ Len(container) = 3
    /\ SelectedAt = {1, 3}
    /\ container[2].kind = "packet"
    /\ container[1].size # container[3].size
    /\ Len(v_info.bits) = 2

\* C3: width and height are 0 and there is no sample until the first frame
\* is decoded (and at return when none is); from then on they are the first
\* decoded frame's dimensions.
DimsFromFirstFrameOnly ==
    /\ Framed = <<>> => v_info.w = 0 /\ v_info.h = 0 /\ v_info.bits = <<>>
    /\ Framed # <<>> => /\ v_info.w = Framed[1].frame.w
                        /\ v_info.h = Framed[1].frame.h

\* C4: a packet the decoder accepts without completing a frame records no
\* sample: there are never more samples than completed frames.
SamplesOnlyForCompletedFrames == Len(v_info.bits) <= Len(Framed)

\* C5: with --bpp and width * height = 0 the run fails with
\* InvalidNormalizationError before draw_graph is called, and no NaN or
\* infinite sample is produced.
ZeroPixelNormalizationRejected ==
    (pc \in {"draw", "done"} /\ use_bpp /\ v_info.w * v_info.h = 0) =>
        /\ result = Err("InvalidNormalizationError")
        /\ ~chart.called
        /\ AllFinite(data)

\* C6: draw_graph on an empty series returns EmptySeriesError, computes no
\* chart and leaves the destination alone.
EmptySeriesRejected ==
    (chart.called /\ data = <<>>) =>
        /\ result = Err("EmptySeriesError")
        /\ ~chart.built
        /\ file = "untouched"

\* C7: for a non-empty series S, draw_graph's mean is sum(S) / count(S), the
\* y range ends at 1.2 * max(S) with max(S) the largest element of S, and
\* the x range ends at count(S) - 1.
ChartStatistics ==
    (chart.called /\ data # <<>>) =>
        /\ chart.built
        /\ chart.x_end = Len(data) - 1
        /\ IF AllFinite(data)
           THEN LET r == RatSum(data, Len(data))
                IN  FEq(chart.avg, Fin(r[1], r[2] * Len(data)))
           ELSE IF SomeNaN(data) \/ {PInf, NInf} \subseteq Numbers(data)
                THEN IsNaN(chart.avg)
           ELSE chart.avg \in Numbers(data) /\ ~IsFinite(chart.avg)
        /\ IF Numbers(data) = {}
           THEN IsNaN(chart.max)
           ELSE /\ chart.max \in Numbers(data)
                /\ \A v \in Numbers(data) : ~FLt(chart.max, v)
        /\ IF IsFinite(chart.max)
           THEN /\ IsFinite(chart.y_end)
                /\ 10 * chart.y_end.n * chart.max.d
                      = 12 * chart.max.n * chart.y_end.d
           ELSE chart.y_end = chart.max

ChartOfVaryingSeries ==
    /\ chart.called /\ chart.built
    /\ Len(data) = 3
    /\ AllFinite(data)
    /\ FLt(data[1], data[2]) /\ FLt(data[3], data[2])
    /\ use_bpp /\ v_info.w * v_info.h = 2

NoOutputOnFatalError ==
    (pc = "done" /\ result.kind # "ok") => file = "untouched"

\* C10: get_video_info returns only once the packet stream is exhausted:
\* every packet of the container was visited, and no packet of the selected
\* stream is left unprocessed, also after a packet-read error.
LoopEndsOnlyAtExhaustion ==
    ExtractorReturned =>
        /\ \A i \in 1..Len(container) : container[i].kind = "packet" => i <= pos
        /\ \A i \in SelectedAt : \E k \in 1..Len(log) : log[k].item = i

====
